---- MODULE Spec2Model ----
(***************************************************************************)
(* A model of the InsightFace face-recognition server:                     *)
(*   face_recognition.py  InsightFaceRecognition (store, extractor,        *)
(*                        matcher, register / compare / delete)            *)
(*   main.py              the FastAPI handlers, all `async def` on one     *)
(*                        event loop, and the lifespan start-up/shutdown   *)
(*                                                                         *)
(* Floats are fixed-point numbers with Scale units per 1.0, or NaN.        *)
(* An image payload is what the decoder and the detection model make of    *)
(* it: whether it decodes, and the candidate faces the model returns.      *)
(***************************************************************************)
EXTENDS Integers, Sequences, FiniteSets, TLC

VARIABLES
    up,               \* main.py: face_recognition is not None (process serving)
    user_embeddings,  \* self.user_embeddings: userId -> embedding
    user_faces,       \* self.user_faces: userId -> face metadata
    disk,             \* the file user_data.pkl
    tasks,            \* requests accepted by the event loop, not holding it
    cur,              \* the handler frame that holds the event loop
    lastCrash,        \* history: the store around the call a crash interrupted
    call              \* the last direct call of a pure function, with its result

vars == <<up, user_embeddings, user_faces, disk, tasks, cur, lastCrash, call>>

----------------------------------------------------------------------------
(* Bounds of the model                                                     *)

MaxAbs == 1       \* embedding components range over -MaxAbs..MaxAbs
MaxCoord == 2     \* bounding-box coordinates range over 0..MaxCoord
MaxFaces == 2     \* candidates the detection model returns for one image
MaxBatch == 2     \* payloads in one batch request
MaxWaiting == 1   \* requests waiting for the event loop
Scale == 10       \* fixed-point units per 1.0

Users == {"alice", "bob"}

----------------------------------------------------------------------------
(* Floats                                                                  *)

NaN == [nan |-> TRUE, val |-> 0]
F(x) == [nan |-> FALSE, val |-> x]

\* Python's `x < y` on floats: every comparison with NaN is False.
Lt(x, y) == ~x.nan /\ ~y.nan /\ x.val < y.val

\* Python's builtin min(a, b): b if b < a else a.
PyMin(a, b) == IF Lt(b, a) THEN b ELSE a

\* Python's builtin max(a, b): b if b > a else a.
PyMax(a, b) == IF Lt(a, b) THEN b ELSE a

\* A threshold as compare_faces receives it: a float, or None.
NoThreshold == [none |-> TRUE, val |-> 0]
Thr(x) == [none |-> FALSE, val |-> x]

\* threshold: Optional[float] = Field(0.6), and compare_faces' default.
DefaultThreshold == (6 * Scale) \div 10

\* The threshold field of a request body: left out, JSON null, or a number.
Omitted == [kind |-> "omitted", val |-> 0]
Null == [kind |-> "null", val |-> 0]
Given(x) == [kind |-> "value", val |-> x]

\* pydantic on Optional[float] = Field(0.6): the default fills in only a field
\* that is left out; an explicit null is accepted and stays None.
RequestThreshold(field) ==
    IF field.kind = "omitted" THEN Thr(DefaultThreshold)
    ELSE IF field.kind = "null" THEN NoThreshold
    ELSE Thr(field.val)

----------------------------------------------------------------------------
(* Vectors                                                                 *)

\* Embeddings are two-dimensional here (512-dimensional in the model family).
Vectors == ((0 - MaxAbs)..MaxAbs) \X ((0 - MaxAbs)..MaxAbs)

\* np.dot on raw vectors.
Dot(a, b) == a[1] * b[1] + a[2] * b[2]

\* np.linalg.norm(v) squared.
NormSq(v) == Dot(v, v)

\* vec / np.linalg.norm(vec): numpy divides by zero without raising, and a zero
\* vector over its zero norm is NaN in every component.
Normalized(v) == [nan |-> NormSq(v) = 0, vec |-> v, nsq |-> NormSq(v)]

\* floor(Scale * d / sqrt(nn)) for d >= 0, and its mirror image for d < 0.
ScaledCos(d, nn) ==
    LET mag == CHOOSE k \in 0..Scale :
                   /\ k * k * nn <= Scale * Scale * d * d
                   /\ (k = Scale \/ (k + 1) * (k + 1) * nn > Scale * Scale * d * d)
    IN  IF d >= 0 THEN mag ELSE 0 - mag

\* np.dot of two normalized vectors.
NpDot(n1, n2) ==
    IF n1.nan \/ n2.nan THEN NaN
    ELSE F(ScaledCos(Dot(n1.vec, n2.vec), n1.nsq * n2.nsq))

\* InsightFaceRecognition.cosine_similarity
cosine_similarity(vec1, vec2) ==
    LET vec1_norm == Normalized(vec1)
        vec2_norm == Normalized(vec2)
        similarity == NpDot(vec1_norm, vec2_norm)
    IN  PyMax(F(0), PyMin(F(Scale), similarity))

----------------------------------------------------------------------------
(* Image payloads, the decoder and the face extractor                      *)

\* Bounding boxes (x1, y1, x2, y2) as the detection model returns them.
Boxes == {b \in (0..MaxCoord) \X (0..MaxCoord) \X (0..MaxCoord) \X (0..MaxCoord) :
              b[1] < b[3] /\ b[2] < b[4]}

UnitBox == <<0, 0, 1, 1>>

Face(box, emb) == [bbox |-> box, embedding |-> emb]

Payload(ok, faces) == [decodable |-> ok, faces |-> faces]

BadPayload == Payload(FALSE, <<>>)
BlankPayload == Payload(TRUE, <<>>)
OneFace(box, emb) == Payload(TRUE, <<Face(box, emb)>>)

\* base64_to_image raises ValueError unless the payload decodes.
Decodes(base64_data) == base64_data.decodable

\* self.app.get(image): the candidates of the decoded image, in model order.
AppGet(image) == image.faces

\* key=lambda x: x.bbox[2] * x.bbox[3]  (0-based indices into (x1, y1, x2, y2))
BBoxKey(x) == x.bbox[3] * x.bbox[4]

\* Python's max(faces, key=...): the first candidate no later one exceeds.
PyMaxIndex(faces) ==
    CHOOSE i \in 1..Len(faces) :
        \A j \in 1..Len(faces) :
            /\ BBoxKey(faces[j]) <= BBoxKey(faces[i])
            /\ (j < i => BBoxKey(faces[j]) < BBoxKey(faces[i]))

\* (None, None)
NoFace == [found |-> FALSE]

\* InsightFaceRecognition.detect_and_extract_face
detect_and_extract_face(image) ==
    LET faces == AppGet(image)
    IN  IF faces = <<>> THEN NoFace
        ELSE LET face == faces[PyMaxIndex(faces)]
                 bbox == face.bbox
                 face_img == [box |-> bbox,
                              shape |-> <<bbox[4] - bbox[2], bbox[3] - bbox[1]>>]
             IN  [found |-> TRUE, face_img |-> face_img, embedding |-> face.embedding]

----------------------------------------------------------------------------
(* Results                                                                 *)

NoData == [none |-> TRUE]

Failure(msg) == [success |-> FALSE, message |-> msg, data |-> NoData]
Success(msg, data) == [success |-> TRUE, message |-> msg, data |-> data]

\* similarity >= threshold on floats.
Ge(x, y) == ~x.nan /\ ~y.nan /\ x.val >= y.val

\* InsightFaceRecognition.compare_faces; every exception becomes a failure result.
compare_faces(user_id, image_data, threshold) ==
    IF user_id \notin DOMAIN user_embeddings THEN Failure("user_not_found")
    ELSE IF ~Decodes(image_data) THEN Failure("compare_failed")
    ELSE LET ext == detect_and_extract_face(image_data)
         IN  IF ~ext.found THEN Failure("no_face")
             ELSE LET stored_embedding == user_embeddings[user_id]
                      similarity == cosine_similarity(ext.embedding, stored_embedding)
                  IN  IF threshold.none
                      THEN Failure("compare_failed") \* float >= None: TypeError
                      ELSE LET is_match == Ge(similarity, F(threshold.val))
                               confidence ==
                                   PyMin(F((similarity.val * 12) \div 10), F(Scale))
                           IN  Success("compare_done",
                                       [similarity |-> similarity.val,
                                        isMatch |-> is_match,
                                        confidence |-> confidence.val,
                                        threshold |-> threshold.val])

\* The loop of face_compare_batch over imageDataList[i..], index i - 1.
RECURSIVE BatchLoop(_, _, _, _, _, _)
BatchLoop(userId, imageDataList, threshold, i, results, errors) ==
    IF i > Len(imageDataList) THEN [results |-> results, errors |-> errors]
    ELSE LET result == compare_faces(userId, imageDataList[i], threshold)
         IN  IF result.success
             THEN BatchLoop(userId, imageDataList, threshold, i + 1,
                            Append(results, [index |-> i - 1, data |-> result.data]),
                            errors)
             ELSE BatchLoop(userId, imageDataList, threshold, i + 1,
                            results,
                            Append(errors, [index |-> i - 1, error |-> result.message]))

\* main.face_compare: the result of compare_faces, re-wrapped as it is.
face_compare(userId, imageData, thresholdField) ==
    compare_faces(userId, imageData, RequestThreshold(thresholdField))

\* A batch that gives up as a whole at the first item that fails.
face_compare_batch_abort(userId, imageDataList, thresholdField) ==
    LET threshold == RequestThreshold(thresholdField)
        out == BatchLoop(userId, imageDataList, threshold, 1, <<>>, <<>>)
    IN  IF out.errors # <<>> THEN Failure("batch_failed")
        ELSE Success("batch_done",
                     [results |-> out.results,
                      errors |-> out.errors,
                      total |-> Len(imageDataList),
                      successCount |-> Len(out.results),
                      errorCount |-> Len(out.errors)])

\* main.face_compare_batch
face_compare_batch(userId, imageDataList, thresholdField) ==
    LET threshold == RequestThreshold(thresholdField)
        out == BatchLoop(userId, imageDataList, threshold, 1, <<>>, <<>>)
    IN  Success("batch_done",
                [results |-> out.results,
                 errors |-> out.errors,
                 total |-> Len(imageDataList),
                 successCount |-> Len(out.results),
                 errorCount |-> Len(out.errors)])

----------------------------------------------------------------------------
(* The store, in memory and on disk                                        *)

EmptyMap == [u \in {} |-> 0]

Put(m, k, v) == [x \in DOMAIN m \cup {k} |-> IF x = k THEN v ELSE m[x]]

\* A delete that drops every key.
DelAll(m, k) == EmptyMap

Del(m, k) == [x \in DOMAIN m \ {k} |-> m[x]]

\* No file user_data.pkl.
NoFile == [state |-> "missing"]

\* A file user_data.pkl that open(..., 'wb') has truncated and pickle.dump has
\* not completed: pickle.load raises on it.
PartialFile == [state |-> "partial"]

\* A save that pickles the embeddings alone.
SnapshotEmbeddingsOnly(embeddings, faces) ==
    [state |-> "ok", embeddings |-> embeddings, faces |-> EmptyMap]

\* The data dict that save_user_data pickles.
Snapshot(embeddings, faces) ==
    [state |-> "ok", embeddings |-> embeddings, faces |-> faces]

\* The entry register_face stores in user_faces.
FaceRecord(face_img, created_at) ==
    [face_image |-> face_img.box, created_at |-> created_at,
     image_size |-> face_img.shape]

NoFrame == [pc |-> "none"]
NoCrash == [happened |-> FALSE]
NoCall == [fn |-> "none"]

----------------------------------------------------------------------------
(* Direct calls of the matcher and of the comparison handlers              *)

StoredVectors == {<<1, 0>>, <<0, 0>>, <<1, 1>>}

\* Stores that registrations can build: any users, any of the embeddings above.
Stores == UNION {[S -> StoredVectors] : S \in SUBSET Users}

ProbeVectors == {<<1, 0>>, <<0, 1>>, <<0, 0>>}

\* Payloads of a batch: undecodable, no face, one face.
BatchPayloads ==
    {BadPayload, BlankPayload} \cup {OneFace(UnitBox, e) : e \in ProbeVectors}

ComparePayloads ==
    {BadPayload, BlankPayload} \cup {OneFace(UnitBox, e) : e \in Vectors}

PayloadLists == UNION {[1..n -> BatchPayloads] : n \in 0..MaxBatch}

ThresholdFields ==
    {Omitted, Null} \cup {Given(x) : x \in {0, DefaultThreshold + 1, Scale}}

mainVars == <<up, user_embeddings, user_faces, disk, tasks, cur, lastCrash>>

InitMatch ==
    /\ up = TRUE
    /\ user_embeddings \in Stores
    /\ user_faces = [u \in DOMAIN user_embeddings |->
                         FaceRecord([box |-> UnitBox, shape |-> <<1, 1>>], "t1")]
    /\ disk = Snapshot(user_embeddings, user_faces)
    /\ tasks = {}
    /\ cur = NoFrame
    /\ lastCrash = NoCrash
    /\ call = NoCall

CallCosine ==
    \E a \in Vectors, b \in Vectors :
        /\ call = NoCall
        /\ call' = [fn |-> "cosine_similarity", vec1 |-> a, vec2 |-> b,
                    out |-> cosine_similarity(a, b)]
        /\ UNCHANGED mainVars

CallCompare ==
    \E u \in Users, p \in ComparePayloads, t \in ThresholdFields :
        /\ call = NoCall
        /\ call' = [fn |-> "face_compare", userId |-> u, imageData |-> p,
                    threshold |-> t, out |-> face_compare(u, p, t)]
        /\ UNCHANGED mainVars

CallCompareBatch ==
    \E u \in Users, ps \in PayloadLists, t \in ThresholdFields :
        /\ call = NoCall
        /\ call' = [fn |-> "face_compare_batch", userId |-> u, imageDataList |-> ps,
                    threshold |-> t, out |-> face_compare_batch(u, ps, t)]
        /\ UNCHANGED mainVars

NextMatch == CallCosine \/ CallCompare \/ CallCompareBatch

SpecMatch == InitMatch /\ [][NextMatch]_vars

----------------------------------------------------------------------------
(* Direct calls of the face extractor                                      *)

FaceEmbeddings == {<<1, 0>>, <<0, 1>>}

Candidates == {Face(b, e) : b \in Boxes, e \in FaceEmbeddings}

FaceLists == UNION {[1..n -> Candidates] : n \in 0..MaxFaces}

InitExtract ==
    /\ up = TRUE
    /\ user_embeddings = EmptyMap
    /\ user_faces = EmptyMap
    /\ disk = NoFile
    /\ tasks = {}
    /\ cur = NoFrame
    /\ lastCrash = NoCrash
    /\ call = NoCall

CallExtract ==
    \E faces \in FaceLists :
        /\ call = NoCall
        /\ call' = [fn |-> "detect_and_extract_face", faces |-> faces,
                    out |-> detect_and_extract_face(Payload(TRUE, faces))]
        /\ UNCHANGED mainVars

NextExtract == CallExtract

SpecExtract == InitExtract /\ [][NextExtract]_vars

----------------------------------------------------------------------------
(* The server: requests, the event loop and the handlers                   *)

\* Clock readings np.datetime64('now') can give.
Times == {"t1"}

FaceA == OneFace(UnitBox, <<1, 0>>)
FaceB == OneFace(<<0, 0, 2, 1>>, <<0, 1>>)

Request(op, userId, imageData, threshold) ==
    [op |-> op, userId |-> userId, imageData |-> imageData, threshold |-> threshold]

\* The requests clients send.
Requests ==
    {Request("register", u, p, Omitted) :
        u \in Users, p \in {BadPayload, BlankPayload, FaceA, FaceB}}
    \cup {Request("delete", u, BadPayload, Omitted) : u \in Users}
    \cup {Request("get_user", u, BadPayload, Omitted) : u \in Users}
    \cup {Request("list_users", "", BadPayload, Omitted)}
    \cup {Request("compare", u, p, Omitted) : u \in Users, p \in {FaceA, FaceB}}

NoResult == [none |-> TRUE]
NoBefore == [none |-> TRUE]

\* A handler's frame: its request, where it stands, its locals, and (history)
\* the store and the file as they were when the event loop entered it.
Frame(req) ==
    [req |-> req, pc |-> "ready", ext |-> NoFace, wfail |-> FALSE,
     before |-> NoBefore, result |-> NoResult]

\* A handler that awaits between the duplicate check and the put.
AwaitsAfterCheck(pc) == pc = "put"

\* Whether a handler standing at pc has handed the event loop back. Every
\* handler of main.py is an `async def` that awaits nothing: once entered it
\* keeps the loop until it returns.
Awaits(pc) == FALSE

LoopFree == IF cur = NoFrame THEN TRUE ELSE Awaits(cur.pc)

Here == [embeddings |-> user_embeddings, faces |-> user_faces, disk |-> disk]

\* InsightFaceRecognition.get_user_info
get_user_info(user_id) ==
    IF user_id \notin DOMAIN user_faces THEN Failure("user_not_found")
    ELSE LET user_info == user_faces[user_id]
         IN  Success("user_info",
                     [userId |-> user_id,
                      createdAt |-> user_info.created_at,
                      imageSize |-> user_info.image_size])

\* InsightFaceRecognition.get_all_users (the list as a set: order not modelled)
get_all_users ==
    LET user_list == {[userId |-> u,
                       createdAt |-> user_faces[u].created_at,
                       imageSize |-> user_faces[u].image_size] : u \in DOMAIN user_faces}
    IN  Success("all_users",
                [users |-> user_list, totalCount |-> Cardinality(user_list)])

Running(op, pc) == up /\ cur # NoFrame /\ cur.req.op = op /\ cur.pc = pc

\* A request arrives while the server is up.
Receive(req) ==
    /\ up
    /\ ~Running("shutdown", cur.pc)
    /\ Cardinality(tasks) < MaxWaiting
    /\ tasks' = tasks \cup {Frame(req)}
    /\ UNCHANGED <<up, user_embeddings, user_faces, disk, cur, lastCrash, call>>

\* The event loop enters (or resumes) a handler when no handler holds it.
Dispatch(f) ==
    /\ up
    /\ f \in tasks
    /\ LoopFree
    /\ cur' = IF f.pc = "ready" THEN [f EXCEPT !.pc = "start", !.before = Here]
              ELSE f
    /\ tasks' = (tasks \ {f}) \cup (IF cur = NoFrame THEN {} ELSE {cur})
    /\ UNCHANGED <<up, user_embeddings, user_faces, disk, lastCrash, call>>

Finish(result) == cur' = [cur EXCEPT !.pc = "done", !.result = result]

\* A registration that does not look for the user first.
RegisterCheckNoDuplicateTest(user_id, image_data) ==
    IF ~Decodes(image_data) THEN "register_failed"
    ELSE IF ~detect_and_extract_face(image_data).found THEN "no_face"
    ELSE "ok"

\* A registration that does not test whether a face was found.
RegisterCheckNoFaceTest(user_id, image_data) ==
    IF ~Decodes(image_data) THEN "register_failed"
    ELSE IF user_id \in DOMAIN user_embeddings THEN "user_exists"
    ELSE "ok"

\* register_face up to the duplicate check: decode, extract, check.
RegisterCheckOutcome(user_id, image_data) ==
    IF ~Decodes(image_data) THEN "register_failed"
    ELSE IF ~detect_and_extract_face(image_data).found THEN "no_face"
    ELSE IF user_id \in DOMAIN user_embeddings THEN "user_exists"
    ELSE "ok"

RegisterCheck ==
    /\ Running("register", "start")
    /\ LET outcome == RegisterCheckOutcome(cur.req.userId, cur.req.imageData)
       IN  IF outcome = "ok"
           THEN cur' = [cur EXCEPT !.pc = "put",
                                   !.ext = detect_and_extract_face(cur.req.imageData)]
           ELSE Finish(Failure(outcome))
    /\ UNCHANGED <<up, user_embeddings, user_faces, disk, tasks, lastCrash, call>>

\* register_face: the two assignments that store the user.
RegisterPut ==
    /\ Running("register", "put")
    /\ \E now \in Times :
           /\ user_embeddings' = Put(user_embeddings, cur.req.userId, cur.ext.embedding)
           /\ user_faces' = Put(user_faces, cur.req.userId,
                                FaceRecord(cur.ext.face_img, now))
    /\ cur' = [cur EXCEPT !.pc = "save"]
    /\ UNCHANGED <<up, disk, tasks, lastCrash, call>>

\* delete_user: the membership test.
DeleteCheck ==
    /\ Running("delete", "start")
    /\ IF cur.req.userId \in DOMAIN user_embeddings
       THEN cur' = [cur EXCEPT !.pc = "del"]
       ELSE Finish(Failure("user_not_found"))
    /\ UNCHANGED <<up, user_embeddings, user_faces, disk, tasks, lastCrash, call>>

\* delete_user: the two del statements; the second raises KeyError for a user
\* user_faces does not hold, after the first has taken effect.
DeleteRemove ==
    /\ Running("delete", "del")
    /\ user_embeddings' = Del(user_embeddings, cur.req.userId)
    /\ IF cur.req.userId \in DOMAIN user_faces
       THEN /\ user_faces' = Del(user_faces, cur.req.userId)
            /\ cur' = [cur EXCEPT !.pc = "save"]
       ELSE /\ user_faces' = user_faces
            /\ Finish(Failure("delete_failed"))
    /\ UNCHANGED <<up, disk, tasks, lastCrash, call>>

Saving(pc) == up /\ cur # NoFrame /\ cur.pc = pc

\* save_user_data: open('user_data.pkl', 'wb') truncates the file, or raises
\* and leaves it alone; the exception is logged and swallowed.
SaveOpen ==
    /\ Saving("save")
    /\ \/ /\ disk' = PartialFile
          /\ cur' = [cur EXCEPT !.pc = "dump"]
       \/ /\ disk' = disk
          /\ cur' = [cur EXCEPT !.pc = "saved", !.wfail = TRUE]
    /\ UNCHANGED <<up, user_embeddings, user_faces, tasks, lastCrash, call>>

\* save_user_data: pickle.dump writes the whole mapping, or raises part-way;
\* the exception is logged and swallowed.
SaveDump ==
    /\ Saving("dump")
    /\ \/ /\ disk' = Snapshot(user_embeddings, user_faces)
          /\ cur' = [cur EXCEPT !.pc = "saved"]
       \/ /\ disk' = PartialFile
          /\ cur' = [cur EXCEPT !.pc = "saved", !.wfail = TRUE]
    /\ UNCHANGED <<up, user_embeddings, user_faces, tasks, lastCrash, call>>

\* A registration that reports a failed save to its caller.
RegisterResultOrSaveError(f) ==
    IF f.wfail THEN Failure("save_failed")
    ELSE Success("registered",
                 [userId |-> f.req.userId, faceData |-> "registered",
                  faceCount |-> Cardinality(DOMAIN user_embeddings)])

\* The result register_face returns after save_user_data.
RegisterResult(f) ==
    Success("registered",
            [userId |-> f.req.userId, faceData |-> "registered",
             faceCount |-> Cardinality(DOMAIN user_embeddings)])

RegisterReturn ==
    /\ Running("register", "saved")
    /\ Finish(RegisterResult(cur))
    /\ UNCHANGED <<up, user_embeddings, user_faces, disk, tasks, lastCrash, call>>

\* The result delete_user returns after save_user_data.
DeleteResult(f) == Success("deleted", NoData)

DeleteReturn ==
    /\ Running("delete", "saved")
    /\ Finish(DeleteResult(cur))
    /\ UNCHANGED <<up, user_embeddings, user_faces, disk, tasks, lastCrash, call>>

GetUser ==
    /\ Running("get_user", "start")
    /\ Finish(get_user_info(cur.req.userId))
    /\ UNCHANGED <<up, user_embeddings, user_faces, disk, tasks, lastCrash, call>>

ListUsers ==
    /\ Running("list_users", "start")
    /\ Finish(get_all_users)
    /\ UNCHANGED <<up, user_embeddings, user_faces, disk, tasks, lastCrash, call>>

Compare ==
    /\ Running("compare", "start")
    /\ Finish(face_compare(cur.req.userId, cur.req.imageData, cur.req.threshold))
    /\ UNCHANGED <<up, user_embeddings, user_faces, disk, tasks, lastCrash, call>>

\* The handler returns its BaseResponse and gives the event loop back.
Respond ==
    /\ up
    /\ cur # NoFrame
    /\ cur.pc = "done"
    /\ cur' = NoFrame
    /\ UNCHANGED <<up, user_embeddings, user_faces, disk, tasks, lastCrash, call>>

\* lifespan, after the yield: the server stops and saves the store once more.
Shutdown ==
    /\ up
    /\ cur = NoFrame
    /\ tasks = {}
    /\ cur' = [Frame(Request("shutdown", "", BadPayload, Omitted))
                   EXCEPT !.pc = "save", !.before = Here]
    /\ UNCHANGED <<up, user_embeddings, user_faces, disk, tasks, lastCrash, call>>

ShutdownDone ==
    /\ Running("shutdown", "saved")
    /\ up' = FALSE
    /\ user_embeddings' = EmptyMap
    /\ user_faces' = EmptyMap
    /\ cur' = NoFrame
    /\ lastCrash' = NoCrash
    /\ UNCHANGED <<disk, tasks, call>>

Mutating(f) == f # NoFrame /\ f.req.op \in {"register", "delete"}

Synced(e, f, d) == d = Snapshot(e, f) \/ (d = NoFile /\ e = EmptyMap /\ f = EmptyMap)

\* The process dies where it stands: memory and connections are lost, the file
\* stays as it is.
Crash ==
    /\ up
    /\ up' = FALSE
    /\ user_embeddings' = EmptyMap
    /\ user_faces' = EmptyMap
    /\ tasks' = {}
    /\ cur' = NoFrame
    /\ lastCrash' =
           IF Mutating(cur) /\ cur.pc # "ready"
           THEN [happened |-> TRUE,
                 mutating |-> TRUE,
                 synced |-> Synced(cur.before.embeddings, cur.before.faces,
                                   cur.before.disk),
                 before |-> <<cur.before.embeddings, cur.before.faces>>,
                 after |-> <<user_embeddings, user_faces>>]
           ELSE [happened |-> TRUE,
                 mutating |-> FALSE,
                 synced |-> Synced(user_embeddings, user_faces, disk),
                 before |-> <<user_embeddings, user_faces>>,
                 after |-> <<user_embeddings, user_faces>>]
    /\ UNCHANGED <<disk, call>>

\* A load that restores the embeddings and leaves the metadata map empty.
LoadedEmbeddingsOnly(field) ==
    IF disk.state = "ok" /\ field = "embeddings" THEN disk[field] ELSE EmptyMap

\* What load_user_data leaves in one of the two maps: the snapshot's, or the
\* empty map of __init__ when there is no file or pickle.load raises.
Loaded(field) == IF disk.state = "ok" THEN disk[field] ELSE EmptyMap

\* lifespan, before the yield: InsightFaceRecognition() and its load_user_data.
Restart ==
    /\ ~up
    /\ up' = TRUE
    /\ user_embeddings' = Loaded("embeddings")
    /\ user_faces' = Loaded("faces")
    /\ lastCrash' = NoCrash
    /\ UNCHANGED <<disk, tasks, cur, call>>

Init ==
    /\ up = TRUE
    /\ user_embeddings = EmptyMap
    /\ user_faces = EmptyMap
    /\ disk = NoFile
    /\ tasks = {}
    /\ cur = NoFrame
    /\ lastCrash = NoCrash
    /\ call = NoCall

Next ==
    \/ \E req \in Requests : Receive(req)
    \/ \E f \in tasks : Dispatch(f)
    \/ RegisterCheck
    \/ RegisterPut
    \/ DeleteCheck
    \/ DeleteRemove
    \/ SaveOpen
    \/ SaveDump
    \/ RegisterReturn
    \/ DeleteReturn
    \/ GetUser
    \/ ListUsers
    \/ Compare
    \/ Respond
    \/ Shutdown
    \/ ShutdownDone
    \/ Crash
    \/ Restart

Spec == Init /\ [][Next]_vars

----------------------------------------------------------------------------
(* Properties of the store and of the handlers that change it              *)

InCall(op) == up /\ cur # NoFrame /\ cur.req.op = op /\ cur.pc # "ready"

Returned(op) == InCall(op) /\ cur.pc = "done"

StoreUnchanged ==
    /\ user_embeddings = cur.before.embeddings
    /\ user_faces = cur.before.faces
    /\ disk = cur.before.disk

\* C1: Register of a userId the store already holds fails (with "user exists"
\* when the payload decodes and holds a face) and, all through the call, the
\* user's embedding and metadata, every other record and the snapshot file
\* are as they were when the call began.
C1_RegisterNeverOverwrites ==
    (InCall("register") /\ cur.req.userId \in DOMAIN cur.before.embeddings)
        => /\ StoreUnchanged
           /\ cur.pc \in {"start", "done"}
           /\ cur.pc = "done" =>
                  /\ ~cur.result.success
                  /\ (Decodes(cur.req.imageData) /\ AppGet(cur.req.imageData) # <<>>)
                         => cur.result.message = "user_exists"

\* A second registration of a user, with another face, has been turned down.
C1_Witness ==
    /\ Returned("register")
    /\ cur.result.message = "user_exists"
    /\ user_embeddings[cur.req.userId]
           # detect_and_extract_face(cur.req.imageData).embedding

\* The part of C2 about one successful registration: the memory holds its
\* embedding, and so does the snapshot if `durable`.
RegisteredAsReturned(durable) ==
    (Returned("register") /\ cur.result.success)
        => /\ cur.req.userId \notin DOMAIN cur.before.embeddings
           /\ user_embeddings = Put(cur.before.embeddings, cur.req.userId,
                                    cur.ext.embedding)
           /\ durable =>
                  /\ disk.state = "ok"
                  /\ disk.embeddings = user_embeddings

\* No handler is ever suspended part-way: every other request waits, untouched,
\* until the running handler has returned.
Serialized ==
    /\ \A f \in tasks : f.pc = "ready"
    /\ Running("register", "put") =>
           /\ StoreUnchanged
           /\ cur.req.userId \notin DOMAIN user_embeddings
    /\ Running("delete", "del") =>
           /\ StoreUnchanged
           /\ cur.req.userId \in DOMAIN user_embeddings
    /\ (InCall("register") /\ cur.pc \in {"save", "dump", "saved"}) =>
           /\ user_embeddings = Put(cur.before.embeddings, cur.req.userId,
                                    cur.ext.embedding)
           /\ DOMAIN user_faces = DOMAIN user_embeddings
    /\ (InCall("delete") /\ cur.pc \in {"save", "dump", "saved", "done"}
           /\ cur.req.userId \in DOMAIN cur.before.embeddings) =>
           /\ user_embeddings = Del(cur.before.embeddings, cur.req.userId)
           /\ user_faces = Del(cur.before.faces, cur.req.userId)

\* C2 as stated: handlers are serialized, a Register succeeds only for a user
\* absent when it ran (so of two concurrent ones for an absent user at most
\* one succeeds), and when it returns the memory and the snapshot hold its
\* embedding.
C2_SerializedAndSnapshotHoldsWinner ==
    Serialized /\ RegisteredAsReturned(TRUE)

\* C2, amended: as above, the snapshot holding the winner's embedding only if
\* its snapshot write did not fail.
C2_SerializedAndStoreHoldsWinner ==
    Serialized /\ RegisteredAsReturned(~cur.wfail)

\* One of two concurrent registrations of a user has succeeded while the
\* other, with another face, still waits for the event loop.
C2_Witness ==
    /\ Returned("register")
    /\ cur.result.success
    /\ \E f \in tasks :
           /\ f.req.op = "register"
           /\ f.req.userId = cur.req.userId
           /\ Decodes(f.req.imageData)
           /\ AppGet(f.req.imageData) # <<>>
           /\ f.req.imageData # cur.req.imageData

\* C3: when a successful Register or Delete returns and its snapshot write did
\* not fail, the snapshot file holds exactly the mapping the memory holds.
C3_SnapshotEqualsMemoryOnReturn ==
    \A op \in {"register", "delete"} :
        (Returned(op) /\ cur.result.success /\ ~cur.wfail)
            => /\ disk.state = "ok"
               /\ disk.embeddings = user_embeddings
               /\ disk.faces = user_faces

\* A delete has returned and left another user in the store and in the file.
C3_Witness ==
    /\ Returned("delete")
    /\ cur.result.success
    /\ ~cur.wfail
    /\ user_embeddings # EmptyMap
    /\ disk.state = "ok"
    /\ DOMAIN disk.faces = DOMAIN user_embeddings

\* C4: the process restarted after a crash during or right after a Register or
\* Delete that began with memory and snapshot in step loads the mapping as it
\* was just before or just after that call.
C4_CrashLosesAtMostOneMutation ==
    [][(/\ ~up
        /\ up'
        /\ lastCrash.happened
        /\ lastCrash.mutating
        /\ lastCrash.synced)
           => <<user_embeddings', user_faces'>> \in {lastCrash.before, lastCrash.after}]_vars

\* C5: Delete of a userId the store does not hold returns "user not found",
\* changes neither the memory nor the snapshot file and starts no save; Delete
\* of a userId it holds removes that user and leaves every other record alone.
C5_DeleteRemovesExactlyThatUser ==
    InCall("delete") =>
        IF cur.req.userId \in DOMAIN cur.before.embeddings
        THEN cur.pc = "done" =>
                 /\ cur.result.success
                 /\ user_embeddings =
                        [u \in DOMAIN cur.before.embeddings \ {cur.req.userId}
                            |-> cur.before.embeddings[u]]
                 /\ user_faces =
                        [u \in DOMAIN cur.before.faces \ {cur.req.userId}
                            |-> cur.before.faces[u]]
        ELSE /\ StoreUnchanged
             /\ cur.pc \in {"start", "done"}
             /\ ~cur.wfail
             /\ cur.pc = "done" => cur.result = Failure("user_not_found")

\* A delete has removed one of two users.
C5_Witness ==
    /\ Returned("delete")
    /\ cur.result.success
    /\ Cardinality(DOMAIN cur.before.embeddings) = 2
    /\ Cardinality(DOMAIN user_embeddings) = 1

\* A delete of an absent user has been turned down with a user in the store.
C5_WitnessNotFound ==
    /\ Returned("delete")
    /\ cur.result.message = "user_not_found"
    /\ user_embeddings # EmptyMap

Listed(user_id) == \E e \in get_all_users.data.users : e.userId = user_id

\* C6: a Register or Delete whose snapshot write failed still returns success
\* and keeps its change in memory, where get, list and compare see it, while
\* the file is left as it was or truncated, not brought up to the memory.
C6_SaveFailureKeepsMutation ==
    /\ (InCall("register") /\ cur.wfail) =>
           /\ cur.pc \in {"saved", "done"}
           /\ cur.pc = "done" => cur.result.success
           /\ user_embeddings = Put(cur.before.embeddings, cur.req.userId,
                                    cur.ext.embedding)
           /\ get_user_info(cur.req.userId).success
           /\ Listed(cur.req.userId)
           /\ face_compare(cur.req.userId, cur.req.imageData, Omitted).success
           /\ disk \in {cur.before.disk, PartialFile}
    /\ (InCall("delete") /\ cur.wfail) =>
           /\ cur.pc \in {"saved", "done"}
           /\ cur.pc = "done" => cur.result.success
           /\ user_embeddings = Del(cur.before.embeddings, cur.req.userId)
           /\ ~get_user_info(cur.req.userId).success
           /\ ~Listed(cur.req.userId)
           /\ face_compare(cur.req.userId, FaceA, Omitted) = Failure("user_not_found")
           /\ disk \in {cur.before.disk, PartialFile}

\* A registration has returned success although the file, which held a
\* snapshot before, could not be written and still holds that snapshot.
C6_Witness ==
    /\ Returned("register")
    /\ cur.wfail
    /\ cur.result.success
    /\ disk.state = "ok"
    /\ disk = cur.before.disk
    /\ cur.req.userId \notin DOMAIN disk.embeddings

\* C11: a Register whose payload does not decode or shows no face fails
\* without a put or a save: memory, user count and snapshot file stay as they
\* were. Only a Register that passes decode, extract and the duplicate test
\* adds a record, and it returns the previous user count plus one.
C11_RegisterFailsFast ==
    InCall("register") =>
        LET image == cur.req.imageData
            decoded == Decodes(image)
            faceFound == decoded /\ AppGet(image) # <<>>
            passes == faceFound /\ cur.req.userId \notin DOMAIN cur.before.embeddings
            count == Cardinality(DOMAIN cur.before.embeddings)
        IN  IF ~passes
            THEN /\ StoreUnchanged
                 /\ Cardinality(DOMAIN user_embeddings) = count
                 /\ cur.pc \in {"start", "done"}
                 /\ ~cur.wfail
                 /\ cur.pc = "done" =>
                        /\ ~cur.result.success
                        /\ ~decoded => cur.result.message = "register_failed"
                        /\ (decoded /\ ~faceFound) => cur.result.message = "no_face"
            ELSE /\ cur.pc \in {"start", "put"} => StoreUnchanged
                 /\ cur.pc = "done" =>
                        /\ cur.result.success
                        /\ cur.result.data.faceCount = count + 1
                        /\ DOMAIN user_embeddings =
                               DOMAIN cur.before.embeddings \cup {cur.req.userId}
                        /\ DOMAIN user_faces =
                               DOMAIN cur.before.faces \cup {cur.req.userId}

\* A registration with an image that shows no face has been turned down with
\* a user in the store.
C11_Witness ==
    /\ Returned("register")
    /\ cur.result.message = "no_face"
    /\ user_embeddings # EmptyMap

\* A registration has added a second user and reports two users.
C11_WitnessAdded ==
    /\ Returned("register")
    /\ cur.result.success
    /\ cur.result.data.faceCount = 2

\* C12: the embedding map and the metadata map hold the same userIds, in
\* memory and in every snapshot written, so get_user_info and get_all_users
\* (which read the metadata) agree with compare_faces, register_face and
\* delete_user (which test the embeddings) on who exists; and a Delete changes
\* both maps or neither and never ends in its KeyError branch.
C12_MapsHoldTheSameUsers ==
    /\ DOMAIN user_embeddings = DOMAIN user_faces
    /\ disk.state = "ok" => DOMAIN disk.embeddings = DOMAIN disk.faces
    /\ \A u \in Users :
           /\ get_user_info(u).success <=> u \in DOMAIN user_embeddings
           /\ Listed(u) <=> u \in DOMAIN user_embeddings
           /\ (face_compare(u, FaceA, Omitted).message # "user_not_found")
                  <=> get_user_info(u).success
           /\ (RegisterCheckOutcome(u, FaceA) = "user_exists")
                  <=> get_user_info(u).success
    /\ InCall("delete") =>
           /\ (user_embeddings = cur.before.embeddings)
                  <=> (user_faces = cur.before.faces)
           /\ cur.pc = "done" => cur.result.message # "delete_failed"

\* A delete has removed, from both maps, one of two users that the memory
\* and the snapshot file both held.
C12_Witness ==
    /\ Returned("delete")
    /\ cur.result.success
    /\ cur.before.disk.state = "ok"
    /\ DOMAIN cur.before.disk.faces = Users
    /\ DOMAIN cur.before.embeddings = Users
    /\ DOMAIN user_embeddings = Users \ {cur.req.userId}
    /\ DOMAIN user_faces = Users \ {cur.req.userId}

\* The server has restarted on a snapshot that holds a user, and a lookup of
\* that user has succeeded.
C12_WitnessLoaded ==
    /\ Returned("get_user")
    /\ cur.result.success
    /\ cur.before.disk.state = "ok"
    /\ cur.req.userId \in DOMAIN cur.before.disk.embeddings
    /\ tasks = {}

----------------------------------------------------------------------------
(* Properties of the matcher, the extractor and the comparison handlers    *)

IsZero(v) == NormSq(v) = 0

\* C7: similarity(a, b) is 0.0 whenever a or b has zero norm, so a comparison
\* that involves a zero-norm embedding never reports similarity 1.0.
C7_ZeroNormSimilarityIsZero ==
    /\ (call.fn = "cosine_similarity" /\ (IsZero(call.vec1) \/ IsZero(call.vec2)))
           => call.out = F(0)
    /\ (/\ call.fn = "face_compare"
        /\ call.out.success
        /\ \/ IsZero(user_embeddings[call.userId])
           \/ IsZero(call.imageData.faces[1].embedding))
           => call.out.data.similarity # Scale

\* (x2 - x1) * (y2 - y1) of a candidate's box (x1, y1, x2, y2).
Area(x) == (x.bbox[3] - x.bbox[1]) * (x.bbox[4] - x.bbox[2])

\* The first candidate of the largest area.
LargestFirst(faces) ==
    CHOOSE i \in 1..Len(faces) :
        \A j \in 1..Len(faces) :
            /\ Area(faces[j]) <= Area(faces[i])
            /\ (j < i => Area(faces[j]) < Area(faces[i]))

\* C8: the extractor returns the candidate of the largest bounding-box area
\* (x2 - x1) * (y2 - y1), the first-returned one among equals, and reports no
\* face for an empty candidate list.
C8_SelectsLargestAreaFirst ==
    call.fn = "detect_and_extract_face" =>
        IF call.faces = <<>> THEN call.out = NoFace
        ELSE LET best == call.faces[LargestFirst(call.faces)]
             IN  /\ call.out.found
                 /\ call.out.embedding = best.embedding
                 /\ call.out.face_img.box = best.bbox

Indices(entries) == {entries[k].index : k \in 1..Len(entries)}

Ascending(entries) ==
    \A k \in 1..Len(entries), l \in 1..Len(entries) :
        k < l => entries[k].index < entries[l].index

\* C9: a batch over n payloads succeeds as a whole whatever its items do; every
\* index 0..n-1 is in exactly one of results and errors, both ascending; the
\* counts add up to total = n; and item i carries what face_compare gives for
\* payload i alone.
C9_BatchIsolatesItems ==
    call.fn = "face_compare_batch" =>
        LET n == Len(call.imageDataList)
            d == call.out.data
        IN  /\ call.out.success
            /\ d.total = n
            /\ d.successCount = Len(d.results)
            /\ d.errorCount = Len(d.errors)
            /\ d.successCount + d.errorCount = n
            /\ Indices(d.results) \cup Indices(d.errors) = 0..(n - 1)
            /\ Indices(d.results) \cap Indices(d.errors) = {}
            /\ Ascending(d.results)
            /\ Ascending(d.errors)
            /\ \A i \in 0..(n - 1) :
                   LET alone == face_compare(call.userId, call.imageDataList[i + 1],
                                             call.threshold)
                   IN  IF alone.success
                       THEN \E k \in 1..Len(d.results) :
                                d.results[k] = [index |-> i, data |-> alone.data]
                       ELSE \E k \in 1..Len(d.errors) :
                                d.errors[k] = [index |-> i, error |-> alone.message]

\* A batch of a registered user whose first payload compares and whose second
\* has no face.
C9_Witness ==
    /\ call.fn = "face_compare_batch"
    /\ call.userId \in DOMAIN user_embeddings
    /\ Len(call.imageDataList) = 2
    /\ Indices(call.out.data.results) = {0}
    /\ Indices(call.out.data.errors) = {1}

\* The threshold a request asks for: its own, or 0.6 when it gives none.
Applied(field) == IF field.kind = "value" THEN field.val ELSE DefaultThreshold

\* C10: a comparison of a registered user with a decodable image that holds a
\* face succeeds with isMatch = (similarity >= threshold), the threshold being
\* the caller's or 0.6 when the caller gives none (omitted or null), and the
\* result names the threshold applied.
C10_MatchIffAtLeastThreshold ==
    (/\ call.fn = "face_compare"
     /\ call.userId \in DOMAIN user_embeddings
     /\ call.imageData.decodable
     /\ call.imageData.faces # <<>>)
        => /\ call.out.success
           /\ call.out.data.threshold = Applied(call.threshold)
           /\ call.out.data.isMatch
                  = (call.out.data.similarity >= Applied(call.threshold))

====
